---- MODULE Spec2Model ----
(***************************************************************************)
(* PatchServer, patchserver/routes.py: the request handlers that build,    *)
(* extend and delete the graph of a software title (criteria, joins,       *)
(* patches, components, kill-apps, extension attributes).                  *)
(*                                                                         *)
(* db   is the durable store: one set of rows per table.                   *)
(* req  is, per worker, the request in flight: its position, its session   *)
(*      (the rows staged and not yet committed), the remaining loop        *)
(*      iterations of the handler, and the response once it has returned.  *)
(***************************************************************************)
EXTENDS Integers, Sequences, FiniteSets, TLC

VARIABLES db, req

vars == <<db, req>>

\* The store accepts a request only while it stays within this many rows.
MaxRows == 7

Workers == {"w1", "w2"}

TitleIds == {"t1", "t2"}

Tables ==
  {"titles", "criteria", "stc", "patches", "pc", "components", "kill_apps", "ext_atts"}

\* Python's None where a row is expected: a row whose id is 0 (rows have ids >= 1).
NoRow == [id |-> 0]

IsSet(row) == row.id # 0

EmptyStore ==
  [titles |-> {}, criteria |-> {}, stc |-> {}, patches |-> {}, pc |-> {},
   components |-> {}, kill_apps |-> {}, ext_atts |-> {}]

EmptySession == [ins |-> EmptyStore, upd |-> {}, del |-> {}]

Reverse(s) == [i \in 1..Len(s) |-> s[Len(s) + 1 - i]]

\* A list with each item's position in the caller's list.
Indexed(s) == [i \in 1..Len(s) |-> [idx |-> i, item |-> s[i]]]

\* dict.get(key) for the optional lists: a missing key and an empty list are
\* both falsy, and the handlers skip them alike.
Get(dict, key) == IF key \in DOMAIN dict THEN dict[key] ELSE <<>>

\* dict[k] for every k of keys succeeds (no KeyError).
HasKeys(dict, keys) == keys \subseteq DOMAIN dict

-----------------------------------------------------------------------------
(* Request payloads.                                                       *)

kDef   == [name |-> "ab", operator |-> "c", value |-> "1", type |-> "t"]
kTrue  == [name |-> "ab", operator |-> "c", value |-> "1", type |-> "t", and |-> TRUE]
kFalse == [name |-> "ab", operator |-> "c", value |-> "1", type |-> "t", and |-> FALSE]
kShift == [name |-> "a", operator |-> "bc", value |-> "1", type |-> "t", and |-> TRUE]
kBad   == [name |-> "ab", operator |-> "c", type |-> "t"]

CritInputs == {kDef, kTrue, kFalse, kShift, kBad}

CritLists ==
  {<<>>} \cup {<<a>> : a \in CritInputs}
         \cup {<<kDef, b>> : b \in {kDef, kTrue, kFalse, kShift, kBad}}

Comp(n, crits) == [name |-> n, version |-> "1", criteria |-> crits]

compBad == [name |-> "B"]

CompLists ==
  {<<Comp("A", <<kDef>>)>>, <<Comp("A", <<kFalse>>)>>, <<Comp("A", <<kBad>>)>>,
   <<Comp("A", <<kDef>>), Comp("B", <<kDef>>)>>,
   <<Comp("A", <<kDef>>), compBad>>}

killApp == [bundleId |-> "com.x", appName |-> "X.app"]

killBad == [bundleId |-> "com.x"]

KillLists == {<<killApp>>, <<killApp, killBad>>}

extAtt == [key |-> "k", value |-> "v", displayName |-> "K"]

extBad == [key |-> "k", value |-> "v"]

ExtLists == {<<extAtt>>, <<extAtt, extBad>>}

PatchDesc(ver, date, caps, comps, kills) ==
  [version |-> ver, releaseDate |-> date, standalone |-> TRUE,
   minimumOperatingSystem |-> "10.9", reboot |-> FALSE,
   capabilities |-> caps, components |-> comps, killApps |-> kills]

patchBare ==
  [version |-> "1.0", releaseDate |-> "2018-01-01", standalone |-> TRUE,
   minimumOperatingSystem |-> "10.9", reboot |-> FALSE]

patchNoVersion ==
  [releaseDate |-> "2018-01-01", standalone |-> TRUE,
   minimumOperatingSystem |-> "10.9", reboot |-> FALSE]

PatchInputs ==
  {patchBare, patchNoVersion,
   PatchDesc("1.0", "not-a-date", <<>>, <<>>, <<>>),
   PatchDesc("1.0", "2018-01-01", <<kDef>>, <<Comp("A", <<kDef>>)>>, <<killApp>>)}
    \cup {PatchDesc("1.0", "2018-01-01", c, <<>>, <<>>) : c \in {<<kDef>>, <<kDef, kBad>>}}
    \cup {PatchDesc("1.0", "2018-01-01", <<>>, c, <<>>) : c \in CompLists}
    \cup {PatchDesc("1.0", "2018-01-01", <<>>, <<>>, k) : k \in KillLists}

PatchLists ==
  {<<>>} \cup {<<p>> : p \in PatchInputs}
         \cup {<<PatchDesc("1.0", "2018-01-01", <<kDef>>, <<>>, <<>>), q>> :
                 q \in {PatchDesc("2.0", "2018-02-01", <<>>, <<>>, <<>>),
                        PatchDesc("2.0", "not-a-date", <<>>, <<>>, <<>>)}}

TitleDesc(id, reqs, patches, exts) ==
  [id |-> id, name |-> "N", publisher |-> "P", appName |-> "N.app",
   bundleId |-> "com.n", requirements |-> reqs, patches |-> patches,
   extensionAttributes |-> exts]

titleBare(id) ==
  [id |-> id, name |-> "N", publisher |-> "P", appName |-> "N.app", bundleId |-> "com.n"]

titleNoName(id) ==
  [id |-> id, publisher |-> "P", appName |-> "N.app", bundleId |-> "com.n",
   requirements |-> <<kDef>>]

patchFull ==
  PatchDesc("1.0", "2018-01-01", <<kDef>>, <<Comp("A", <<kDef>>)>>, <<killApp>>)

TitleInputs ==
  UNION {
    {titleBare(i), titleNoName(i), TitleDesc(i, <<kDef>>, <<patchFull>>, <<extAtt>>)}
      \cup {TitleDesc(i, r, <<>>, <<>>) : r \in CritLists}
      \cup {TitleDesc(i, <<>>, p, <<>>) : p \in PatchLists}
      \cup {TitleDesc(i, <<>>, <<>>, e) : e \in ExtLists}
    : i \in TitleIds}

RequirementsAddInputs == {[items |-> l] : l \in CritLists}

PatchesAddInputs == {[items |-> l] : l \in PatchLists}

-----------------------------------------------------------------------------
(* The store and the session.                                              *)

Size(store) ==
  Cardinality(store.titles) + Cardinality(store.criteria) + Cardinality(store.stc)
    + Cardinality(store.patches) + Cardinality(store.pc)
    + Cardinality(store.components) + Cardinality(store.kill_apps)
    + Cardinality(store.ext_atts)

Ids(rows) == {r.id : r \in rows}

\* Deleting title rows: the store cascades to the patches of the titles, to the
\* components, kill-apps and criteria joins of those patches, and to the titles'
\* own criteria joins and extension attributes.  Criteria rows stay; one that a
\* deleted component owned loses its owner.
DeleteCascade(store, title_ids) ==
  LET gone_patches == {p.id : p \in {q \in store.patches : q.software_title \in title_ids}}
      gone_comps == {c.id : c \in {k \in store.components : k.patch \in gone_patches}}
  IN  [titles     |-> {t \in store.titles : t.id \notin title_ids},
       criteria   |-> {IF c.patch_component \in gone_comps
                         THEN [c EXCEPT !.patch_component = 0] ELSE c :
                       c \in store.criteria},
       stc        |-> {j \in store.stc : j.software_title \notin title_ids},
       patches    |-> {p \in store.patches : p.id \notin gone_patches},
       pc         |-> {j \in store.pc : j.patch \notin gone_patches},
       components |-> {k \in store.components : k.id \notin gone_comps},
       kill_apps  |-> {k \in store.kill_apps : k.patch \notin gone_patches},
       ext_atts   |-> {e \in store.ext_atts : e.software_title \notin title_ids}]

\* The owner a session has given a criteria row, if it has given one.
Owned(s, c) ==
  IF \E u \in s.upd : u.criteria = c.id
    THEN [c EXCEPT !.patch_component = (CHOOSE u \in s.upd : u.criteria = c.id).patch_component]
    ELSE c

\* What a session sees, and what its commit writes: the durable rows with the
\* session's deletes, inserts and updates applied.
View(store, s) ==
  LET kept == DeleteCascade(store, s.del)
  IN  [titles     |-> kept.titles \cup s.ins.titles,
       criteria   |-> {Owned(s, c) : c \in kept.criteria} \cup s.ins.criteria,
       stc        |-> kept.stc \cup s.ins.stc,
       patches    |-> kept.patches \cup s.ins.patches,
       pc         |-> kept.pc \cup s.ins.pc,
       components |-> kept.components \cup s.ins.components,
       kill_apps  |-> kept.kill_apps \cup s.ins.kill_apps,
       ext_atts   |-> kept.ext_atts \cup s.ins.ext_atts]

\* The store's unique keys: software_titles.id_name and criteria.hash.
UniqueOk(store) ==
  /\ \A a, b \in store.titles : a.id_name = b.id_name => a = b
  /\ \A a, b \in store.criteria : a.hash = b.hash => a = b

\* The rows of a table that hold an id: the durable ones and every session's.
AllRows(t) ==
  db[t] \cup UNION {req[w].sess.ins[t] : w \in Workers}
        \cup (IF t = "titles" THEN {req[w].title : w \in Workers} ELSE {})

\* The primary key the store gives a new row of table t: the least id that no
\* row of the table holds.
NewId(t) ==
  LET used == Ids(AllRows(t))
  IN  CHOOSE i \in 1..(Cardinality(used) + 1) :
        /\ i \notin used
        /\ \A j \in 1..(i - 1) : j \in used

Insert(s, t, row) == [s EXCEPT !.ins[t] = @ \cup {row}]

\* session.add(row) reaches a row's owner too (save-update cascade): a title
\* that is neither stored nor staged yet is staged with its first child.
Cascade(s, t, row) ==
  IF row.id \in Ids(View(db, s)[t]) THEN s ELSE Insert(s, t, row)

-----------------------------------------------------------------------------
(* create_criteria_objects: one iteration of its loop.                     *)

CriterionKeys == {"name", "operator", "value", "type"}

\* str(bool)
Str(b) == IF b THEN "True" ELSE "False"

AndOfDefaultFalse(criterion) ==
  IF "and" \in DOMAIN criterion THEN criterion["and"] ELSE FALSE

\* criterion.get('and', True)
AndOf(criterion) == IF "and" \in DOMAIN criterion THEN criterion["and"] ELSE TRUE

\* hashlib.sha1(name + operator + value + type + str(and)).hexdigest(): the
\* digest is taken as injective on the concatenated string, so it is modelled
\* by that string.
CriteriaHash(criterion) ==
  criterion.name \o criterion.operator \o criterion.value \o criterion.type
    \o Str(AndOf(criterion))

\* The fingerprint the Criteria model stores with a new row.
StoredHash(name, operator, value, type_, and_) ==
  name \o operator \o value \o type_ \o Str(and_)

\* Criteria(name=..., operator=..., value=..., type_=..., and_=...)
NewCriteria(id, criterion) ==
  [id |-> id, name |-> criterion.name, operator |-> criterion.operator,
   value |-> criterion.value, type_ |-> criterion.type, and_ |-> AndOf(criterion),
   hash |-> StoredHash(criterion.name, criterion.operator, criterion.value,
                       criterion.type, AndOf(criterion)),
   patch_component |-> 0]

QueryByHashNone(store, s, h) == {}

QueryByHashStored(store, s, h) == {c \in store.criteria : c.hash = h}

\* Criteria.query.filter_by(hash=h): the rows the session sees with that hash.
QueryByHash(store, s, h) == {c \in View(store, s).criteria : c.hash = h}

\* .first()
First(rows) == CHOOSE r \in rows : \A o \in rows : r.id <= o.id

SetOwnerKeepFirst(s, criteria, component) ==
  IF criteria.patch_component # 0 THEN s
  ELSE IF criteria.id \in Ids(db.criteria)
    THEN [s EXCEPT !.upd = @ \cup {[criteria |-> criteria.id,
                                    patch_component |-> component.id]}]
    ELSE Insert(s, "criteria", [criteria EXCEPT !.patch_component = component.id])

\* The session after criteria.patch_component = component; db.session.add(criteria).
SetOwner(s, criteria, component) ==
  LET owned == [criteria EXCEPT !.patch_component = component.id]
  IN  IF criteria.id \in Ids(s.ins.criteria)
        THEN [s EXCEPT !.ins.criteria = (@ \ {criteria}) \cup {owned}]
        ELSE IF criteria.id \in Ids(db.criteria)
          THEN [s EXCEPT !.upd = {u \in @ : u.criteria # criteria.id}
                                   \cup {[criteria |-> criteria.id,
                                          patch_component |-> component.id]}]
          ELSE Insert(s, "criteria", owned)

Raise(s, exc) == [exc |-> exc, sess |-> s, rows |-> {}, criteria |-> 0]

\* Lines 150-185 for one criterion.  The result holds the exception raised
\* ("" for none), the session, the rows the iteration staged, and the id of
\* the criteria row the criterion resolved to.
Attach(s, criterion, software_title, patch_object, patch_component) ==
  IF ~HasKeys(criterion, CriterionKeys) THEN Raise(s, "KeyError")
  ELSE IF ~UniqueOk(View(db, s)) THEN Raise(s, "IntegrityError")
  ELSE
    LET found == QueryByHash(db, s, CriteriaHash(criterion))
        fresh == found = {}
        criteria == IF fresh THEN NewCriteria(NewId("criteria"), criterion)
                             ELSE First(found)
        saved == IF fresh THEN {[t |-> "criteria", id |-> criteria.id]} ELSE {}
    IN  IF IsSet(software_title)
          THEN LET join == [id |-> NewId("stc"),
                            software_title |-> software_title.id,
                            criteria |-> criteria.id]
                   s1 == Insert(Cascade(s, "titles", software_title), "stc", join)
               IN  [exc |-> "",
                    sess |-> IF fresh THEN Insert(s1, "criteria", criteria) ELSE s1,
                    rows |-> saved \cup {[t |-> "stc", id |-> join.id]},
                    criteria |-> criteria.id]
        ELSE IF IsSet(patch_object)
          THEN LET join == [id |-> NewId("pc"),
                            patch |-> patch_object.id,
                            criteria |-> criteria.id]
                   s1 == Insert(s, "pc", join)
               IN  [exc |-> "",
                    sess |-> IF fresh THEN Insert(s1, "criteria", criteria) ELSE s1,
                    rows |-> saved \cup {[t |-> "pc", id |-> join.id]},
                    criteria |-> criteria.id]
        ELSE IF IsSet(patch_component)
          THEN [exc |-> "", sess |-> SetOwner(s, criteria, patch_component),
                rows |-> saved, criteria |-> criteria.id]
        ELSE [exc |-> "",
              sess |-> IF fresh THEN Insert(s, "criteria", criteria) ELSE s,
              rows |-> saved, criteria |-> criteria.id]

-----------------------------------------------------------------------------
(* The handlers' loops, as the list of iterations they will run.           *)

RECURSIVE Flatten(_)
Flatten(ss) == IF ss = <<>> THEN <<>> ELSE Head(ss) \o Flatten(Tail(ss))

\* for item in list: one iteration per item, in the order of the list given.
ItemOps(op, indexed) ==
  [i \in 1..Len(indexed) |-> [op |-> op, item |-> indexed[i].item, idx |-> indexed[i].idx]]

ComponentOpsCriteriaFirst(indexed) ==
  Flatten([i \in 1..Len(indexed) |->
             ItemOps("component_criteria", Indexed(Get(indexed[i].item, "criteria")))
               \o <<[op |-> "component", item |-> indexed[i].item,
                      idx |-> indexed[i].idx]>>])

\* create_patch_object_components: the component, then its criteria.
ComponentOps(indexed) ==
  Flatten([i \in 1..Len(indexed) |->
             <<[op |-> "component", item |-> indexed[i].item, idx |-> indexed[i].idx]>>
               \o ItemOps("component_criteria",
                          Indexed(Get(indexed[i].item, "criteria")))])

\* create_patch_objects: the patch, then its capabilities, components, kill-apps.
PatchOps(indexed) ==
  Flatten([i \in 1..Len(indexed) |->
             <<[op |-> "patch", item |-> indexed[i].item, idx |-> indexed[i].idx]>>
               \o ItemOps("capability", Indexed(Get(indexed[i].item, "capabilities")))
               \o ComponentOps(Indexed(Get(indexed[i].item, "components")))
               \o ItemOps("kill_app", Indexed(Get(indexed[i].item, "killApps")))])

TitleCreateOpsInOrder(data) ==
  ItemOps("requirement", Indexed(Get(data, "requirements")))
    \o PatchOps(Indexed(Get(data, "patches")))
    \o ItemOps("ext_att", Indexed(Get(data, "extensionAttributes")))

\* title_create, lines 96-106.
TitleCreateOps(data) ==
  ItemOps("requirement", Reverse(Indexed(Get(data, "requirements"))))
    \o PatchOps(Reverse(Indexed(Get(data, "patches"))))
    \o ItemOps("ext_att", Indexed(Get(data, "extensionAttributes")))

\* title_requirements_add, line 135.
RequirementsAddOps(data) == ItemOps("requirement", Indexed(data.items))

\* title_patches_add, line 223.
PatchesAddOps(data) == PatchOps(Indexed(data.items))

CriteriaOpNames == {"requirement", "capability", "component_criteria"}

\* An upper bound of the rows a list of iterations stages: one per iteration
\* that adds a row of its own, and one per criteria fingerprint not stored yet.
Cost(ops) ==
  LET own == {i \in 1..Len(ops) : ops[i].op # "component_criteria"}
      crit == {i \in 1..Len(ops) : /\ ops[i].op \in CriteriaOpNames
                                    /\ HasKeys(ops[i].item, CriterionKeys)}
  IN  Cardinality(own)
        + Cardinality({CriteriaHash(ops[i].item) : i \in crit}
                        \ {c.hash : c \in db.criteria})

-----------------------------------------------------------------------------
(* Requests.                                                               *)

Idle ==
  [pc |-> "idle", handler |-> "none", name_id |-> "", data |-> <<>>, ops |-> <<>>,
   sess |-> EmptySession, title |-> NoRow, patch |-> NoRow, component |-> NoRow,
   log |-> <<>>, status |-> 0, commits |-> 0, before |-> EmptyStore,
   result |-> <<>>]

StatusOfUnhandled(exc) == 500

\* The response to an exception: the SoftwareTitleNotFound and IntegrityError
\* handlers; any other exception is unhandled.
StatusOf(exc) ==
  IF exc = "SoftwareTitleNotFound" THEN 404
  ELSE IF exc = "IntegrityError" THEN 409
  ELSE 500

LookupFirstTitle(store, name_id) ==
  IF store.titles = {} THEN NoRow
  ELSE CHOOSE t \in store.titles : \A o \in store.titles : t.id <= o.id

\* lookup_software_title: the title row, or NoRow where it raises.
LookupSoftwareTitle(store, name_id) ==
  LET found == {t \in store.titles : t.id_name = name_id}
  IN  IF found = {} THEN NoRow ELSE CHOOSE t \in found : \A o \in found : t.id <= o.id

\* Whether the handler calls db.session.commit() before it returns.
CommitsAtEnd(handler) ==
  handler \in {"title_create", "title_delete", "title_patches_add"}

\* The request once its loops are through: on to the commit, or the response.
Finished(r) ==
  IF CommitsAtEnd(r.handler) THEN [r EXCEPT !.pc = "commit"]
  ELSE [r EXCEPT !.pc = "done", !.status = 201]

Start(handler, name_id, data, title, ops) ==
  LET r == [Idle EXCEPT !.pc = "run", !.handler = handler, !.name_id = name_id,
                        !.data = data, !.title = title, !.ops = ops, !.before = db]
  IN  IF ops = <<>> THEN Finished(r) ELSE r

Failed(handler, name_id, data, exc) ==
  [Idle EXCEPT !.pc = "done", !.handler = handler, !.name_id = name_id,
               !.data = data, !.status = StatusOf(exc), !.before = db]

Admit(ops) == Size(db) + 1 + Cost(ops) <= MaxRows

TitleKeys == {"id", "name", "publisher", "appName", "bundleId"}

TitleCreate(w) ==
  /\ req[w].pc = "idle"
  /\ \E data \in TitleInputs :
       /\ Admit(TitleCreateOps(data))
       /\ req' = [req EXCEPT ![w] =
            IF ~HasKeys(data, TitleKeys)
              THEN Failed("title_create", data.id, data, "KeyError")
              ELSE Start("title_create", data.id, data,
                         [id |-> NewId("titles"), id_name |-> data.id],
                         TitleCreateOps(data))]
  /\ UNCHANGED db

TitleDelete(w) ==
  /\ req[w].pc = "idle"
  /\ \E name_id \in TitleIds :
       LET title == LookupSoftwareTitle(db, name_id)
       IN  req' = [req EXCEPT ![w] =
             IF ~IsSet(title)
               THEN Failed("title_delete", name_id, <<>>, "SoftwareTitleNotFound")
               ELSE [Start("title_delete", name_id, <<>>, title, <<>>)
                       EXCEPT !.sess.del = {title.id}]]
  /\ UNCHANGED db

TitleRequirementsAdd(w) ==
  /\ req[w].pc = "idle"
  /\ \E name_id \in TitleIds, data \in RequirementsAddInputs :
       LET title == LookupSoftwareTitle(db, name_id)
       IN  /\ Admit(RequirementsAddOps(data))
           /\ req' = [req EXCEPT ![w] =
                IF ~IsSet(title)
                  THEN Failed("title_requirements_add", name_id, data,
                              "SoftwareTitleNotFound")
                  ELSE Start("title_requirements_add", name_id, data, title,
                             RequirementsAddOps(data))]
  /\ UNCHANGED db

TitlePatchesAdd(w) ==
  /\ req[w].pc = "idle"
  /\ \E name_id \in TitleIds, data \in PatchesAddInputs :
       LET title == LookupSoftwareTitle(db, name_id)
       IN  /\ Admit(PatchesAddOps(data))
           /\ req' = [req EXCEPT ![w] =
                IF ~IsSet(title)
                  THEN Failed("title_patches_add", name_id, data,
                              "SoftwareTitleNotFound")
                  ELSE Start("title_patches_add", name_id, data, title,
                             PatchesAddOps(data))]
  /\ UNCHANGED db

-----------------------------------------------------------------------------
(* The read handlers.                                                      *)

\* A string as the list of its characters, which is how the comma separated
\* path segment of software_titles_select is taken apart.
Chars(id) ==
  IF id = "t1" THEN <<"t", "1">>
  ELSE IF id = "t2" THEN <<"t", "2">>
  ELSE IF id = "t3" THEN <<"t", "3">>
  ELSE IF id = "t4" THEN <<"t", "4">>
  ELSE <<>>

\* The identifiers a caller asks for; "" is an empty segment.
NameIdLists ==
  {<<"t1">>, <<"t2">>, <<"t3">>, <<"t1", "t2">>, <<"t2", "t1">>, <<"t1", "t1">>,
   <<"t3", "t1", "t4">>, <<"t3", "t2", "t3">>, <<"t1", "">>}

\* The path segment <name_ids> for a list of identifiers: joined with commas.
RECURSIVE NameIds(_)
NameIds(list) ==
  IF list = <<>> THEN <<>>
  ELSE IF Len(list) = 1 THEN Chars(Head(list))
  ELSE Chars(Head(list)) \o <<",">> \o NameIds(Tail(list))

\* name_ids.split(','): cur is the segment read so far.
RECURSIVE SplitFrom(_, _)
SplitFrom(chars, cur) ==
  IF chars = <<>> THEN <<cur>>
  ELSE IF Head(chars) = "," THEN <<cur>> \o SplitFrom(Tail(chars), "")
  ELSE SplitFrom(Tail(chars), cur \o Head(chars))

Split(name_ids) == SplitFrom(name_ids, "")

\* SoftwareTitle.query.filter(SoftwareTitle.id_name.in_(name_id_list)).all()
QueryIn(store, name_id_list) ==
  {t \in store.titles : \E i \in 1..Len(name_id_list) : t.id_name = name_id_list[i]}

NotFoundFirstOnly(name_id_list, title_list) ==
  LET missing == {i \in 1..Len(name_id_list) :
                    name_id_list[i] \notin {t.id_name : t \in title_list}}
  IN  IF missing = {} THEN <<>>
      ELSE <<name_id_list[CHOOSE i \in missing : \A j \in missing : i <= j]>>

\* [name for name in name_id_list if name not in [title.id_name for title in title_list]]
NotFound(name_id_list, title_list) ==
  LET Missing(name) == name \notin {t.id_name : t \in title_list}
  IN  SelectSeq(name_id_list, Missing)

Answered(handler, name_id, data, title, result) ==
  [Idle EXCEPT !.pc = "done", !.handler = handler, !.name_id = name_id,
               !.data = data, !.title = title, !.status = 200, !.before = db,
               !.result = result]

\* software_titles_select
SoftwareTitlesSelect(w) ==
  /\ req[w].pc = "idle"
  /\ \E list \in NameIdLists :
       LET name_id_list == Split(NameIds(list))
           title_list == QueryIn(db, name_id_list)
           not_found == NotFound(name_id_list, title_list)
       IN  req' = [req EXCEPT ![w] =
             IF not_found # <<>>
               THEN [Failed("software_titles_select", "", list, "SoftwareTitleNotFound")
                       EXCEPT !.result = [not_found |-> not_found]]
               ELSE Answered("software_titles_select", "", list, NoRow,
                             [titles |-> title_list])]
  /\ UNCHANGED db

\* patch_by_name_id
PatchByNameId(w) ==
  /\ req[w].pc = "idle"
  /\ \E name_id \in TitleIds :
       LET title == LookupSoftwareTitle(db, name_id)
       IN  req' = [req EXCEPT ![w] =
             IF ~IsSet(title)
               THEN Failed("patch_by_name_id", name_id, <<>>, "SoftwareTitleNotFound")
               ELSE Answered("patch_by_name_id", name_id, <<>>, title,
                             [title |-> title])]
  /\ UNCHANGED db

\* title_patches
TitlePatches(w) ==
  /\ req[w].pc = "idle"
  /\ \E name_id \in TitleIds :
       LET title == LookupSoftwareTitle(db, name_id)
       IN  req' = [req EXCEPT ![w] =
             IF ~IsSet(title)
               THEN Failed("title_patches", name_id, <<>>, "SoftwareTitleNotFound")
               ELSE Answered("title_patches", name_id, <<>>, title,
                             [id |-> title.id_name,
                              patches |-> {p \in db.patches :
                                             p.software_title = title.id}])]
  /\ UNCHANGED db

-----------------------------------------------------------------------------
(* One loop iteration of the request in flight.                            *)

\* The request after an iteration: the exception's response, or the next
\* iteration with the staged rows logged.
Stepped(r, res, owner, patch, component) ==
  IF res.exc # ""
    THEN [r EXCEPT !.pc = "done", !.status = StatusOf(res.exc), !.sess = res.sess]
    ELSE LET o == Head(r.ops)
             n == [r EXCEPT !.sess = res.sess, !.ops = Tail(r.ops),
                            !.patch = patch, !.component = component,
                            !.log = Append(@, [op |-> o.op, idx |-> o.idx,
                                               item |-> o.item, owner |-> owner.id,
                                               rows |-> res.rows,
                                               criteria |-> res.criteria])]
         IN  IF n.ops = <<>> THEN Finished(n) ELSE n

CreateCriteriaObjectsCommitting(w) ==
  /\ req[w].pc = "run"
  /\ Head(req[w].ops).op \in CriteriaOpNames
  /\ LET r == req[w]
         o == Head(r.ops)
         res == Attach(r.sess, o.item,
                       IF o.op = "requirement" THEN r.title ELSE NoRow,
                       IF o.op = "capability" THEN r.patch ELSE NoRow,
                       IF o.op = "component_criteria" THEN r.component ELSE NoRow)
         owner == IF o.op = "requirement" THEN r.title
                  ELSE IF o.op = "capability" THEN r.patch ELSE r.component
     IN  /\ req' = [req EXCEPT ![w] = Stepped(r, res, owner, r.patch, r.component)]
         /\ db' = IF res.exc = "" THEN View(db, res.sess) ELSE db

\* create_criteria_objects, called with the owner its caller passes.
CreateCriteriaObjects(w) ==
  /\ req[w].pc = "run"
  /\ Head(req[w].ops).op \in CriteriaOpNames
  /\ LET r == req[w]
         o == Head(r.ops)
         res == Attach(r.sess, o.item,
                       IF o.op = "requirement" THEN r.title ELSE NoRow,
                       IF o.op = "capability" THEN r.patch ELSE NoRow,
                       IF o.op = "component_criteria" THEN r.component ELSE NoRow)
         owner == IF o.op = "requirement" THEN r.title
                  ELSE IF o.op = "capability" THEN r.patch ELSE r.component
     IN  req' = [req EXCEPT ![w] = Stepped(r, res, owner, r.patch, r.component)]
  /\ UNCHANGED db

\* dateutil.parser.parse, on the date strings of the payloads.
Parsable(str) == str \in {"2018-01-01", "2018-02-01"}

ParseDate(str) ==
  IF str = "2018-01-01" THEN [year |-> 2018, month |-> 1, day |-> 1]
  ELSE [year |-> 2018, month |-> 2, day |-> 1]

PatchKeys == {"version", "releaseDate", "standalone", "minimumOperatingSystem", "reboot"}

\* create_patch_objects, lines 232-240, for the request r: Patch(...) and
\* db.session.add(new_patch).
NewPatch(r) ==
  LET patch == Head(r.ops).item
      new_patch == [id |-> NewId("patches"), software_title |-> r.title.id,
                    version |-> patch.version,
                    release_date |-> ParseDate(patch.releaseDate)]
      res == IF ~HasKeys(patch, {"version", "releaseDate"})
               THEN Raise(r.sess, "KeyError")
             ELSE IF ~Parsable(patch.releaseDate)
               THEN Raise(r.sess, "ValueError")
             ELSE IF ~HasKeys(patch, PatchKeys)
               THEN Raise(r.sess, "KeyError")
             ELSE [exc |-> "",
                   sess |-> Insert(Cascade(r.sess, "titles", r.title),
                                   "patches", new_patch),
                   rows |-> {[t |-> "patches", id |-> new_patch.id]},
                   criteria |-> 0]
  IN  Stepped(r, res, r.title, IF res.exc = "" THEN new_patch ELSE r.patch, NoRow)

CreatePatchObjectsCommitting(w) ==
  /\ req[w].pc = "run"
  /\ Head(req[w].ops).op = "patch"
  /\ req' = [req EXCEPT ![w] = NewPatch(req[w])]
  /\ db' = View(db, NewPatch(req[w]).sess)

CreatePatchObjects(w) ==
  /\ req[w].pc = "run"
  /\ Head(req[w].ops).op = "patch"
  /\ req' = [req EXCEPT ![w] = NewPatch(req[w])]
  /\ UNCHANGED db

ComponentKeys == {"name", "version"}

KillAppKeys == {"bundleId", "appName"}

ExtAttKeys == {"key", "value", "displayName"}

\* create_patch_object_components, lines 257-262.
CreatePatchObjectComponents(w) ==
  /\ req[w].pc = "run"
  /\ Head(req[w].ops).op = "component"
  /\ LET r == req[w]
         component == Head(r.ops).item
         new_component == [id |-> NewId("components"), patch |-> r.patch.id,
                           name |-> component.name]
         res == IF ~HasKeys(component, ComponentKeys)
                  THEN Raise(r.sess, "KeyError")
                  ELSE [exc |-> "",
                        sess |-> Insert(r.sess, "components", new_component),
                        rows |-> {[t |-> "components", id |-> new_component.id]},
                      criteria |-> 0]
     IN  req' = [req EXCEPT ![w] =
                   Stepped(r, res, r.patch, r.patch,
                           IF res.exc = "" THEN new_component ELSE r.component)]
  /\ UNCHANGED db

\* create_patch_object_kill_apps.
CreatePatchObjectKillApps(w) ==
  /\ req[w].pc = "run"
  /\ Head(req[w].ops).op = "kill_app"
  /\ LET r == req[w]
         kill_app == Head(r.ops).item
         new_kill_app == [id |-> NewId("kill_apps"), patch |-> r.patch.id,
                          bundleId |-> kill_app.bundleId]
         res == IF ~HasKeys(kill_app, KillAppKeys)
                  THEN Raise(r.sess, "KeyError")
                  ELSE [exc |-> "",
                        sess |-> Insert(r.sess, "kill_apps", new_kill_app),
                        rows |-> {[t |-> "kill_apps", id |-> new_kill_app.id]},
                      criteria |-> 0]
     IN  req' = [req EXCEPT ![w] = Stepped(r, res, r.patch, r.patch, r.component)]
  /\ UNCHANGED db

\* create_extension_attributes.
CreateExtensionAttributes(w) ==
  /\ req[w].pc = "run"
  /\ Head(req[w].ops).op = "ext_att"
  /\ LET r == req[w]
         ext_att == Head(r.ops).item
         new_ext_att == [id |-> NewId("ext_atts"), software_title |-> r.title.id,
                         key |-> ext_att.key]
         res == IF ~HasKeys(ext_att, ExtAttKeys)
                  THEN Raise(r.sess, "KeyError")
                  ELSE [exc |-> "",
                        sess |-> Insert(Cascade(r.sess, "titles", r.title),
                                        "ext_atts", new_ext_att),
                        rows |-> {[t |-> "ext_atts", id |-> new_ext_att.id]},
                      criteria |-> 0]
     IN  req' = [req EXCEPT ![w] = Stepped(r, res, r.title, r.patch, r.component)]
  /\ UNCHANGED db

\* db.session.commit(): the staged rows are flushed; a unique key hit raises
\* IntegrityError and nothing is written; otherwise the store takes them all.
Commit(w) ==
  /\ req[w].pc = "commit"
  /\ LET r == req[w]
         after == View(db, r.sess)
     IN  IF UniqueOk(after)
           THEN /\ db' = after
                /\ req' = [req EXCEPT ![w] =
                     [r EXCEPT !.pc = "done", !.sess = EmptySession,
                               !.commits = @ + 1,
                               !.status = IF r.handler = "title_delete" THEN 204 ELSE 201]]
           ELSE /\ db' = db
                /\ req' = [req EXCEPT ![w] =
                     [r EXCEPT !.pc = "done", !.status = StatusOf("IntegrityError")]]

\* The end of the request: the session is removed, and what it had staged and
\* not committed goes with it.
Teardown(w) ==
  /\ req[w].pc = "done"
  /\ req' = [req EXCEPT ![w] = Idle]
  /\ UNCHANGED db

-----------------------------------------------------------------------------

Init ==
  /\ db = EmptyStore
  /\ req = [w \in Workers |-> Idle]

\* Requests run one at a time, on one worker.
Next ==
  \E w \in {"w1"} :
    \/ SoftwareTitlesSelect(w)
    \/ PatchByNameId(w)
    \/ TitlePatches(w)
    \/ TitleCreate(w)
    \/ TitleDelete(w)
    \/ TitleRequirementsAdd(w)
    \/ TitlePatchesAdd(w)
    \/ CreateCriteriaObjects(w)
    \/ CreatePatchObjects(w)
    \/ CreatePatchObjectComponents(w)
    \/ CreatePatchObjectKillApps(w)
    \/ CreateExtensionAttributes(w)
    \/ Commit(w)
    \/ Teardown(w)

Spec == Init /\ [][Next]_vars

-----------------------------------------------------------------------------
(* Two requests at a time, each on a worker with a session of its own.     *)

RaceTitles ==
  {TitleDesc(i, r, <<>>, <<>>) : i \in TitleIds, r \in {<<kDef>>, <<kDef, kFalse>>}}

RaceItems == {[items |-> <<kDef>>], [items |-> <<kDef, kFalse>>]}

RaceNext ==
  \E w \in Workers :
    \/ TitleCreate(w) /\ req'[w].data \in RaceTitles
    \/ TitleRequirementsAdd(w) /\ req'[w].data \in RaceItems
    \/ CreateCriteriaObjects(w)
    \/ Commit(w)
    \/ Teardown(w)

RaceSpec == Init /\ [][RaceNext]_vars

-----------------------------------------------------------------------------
(* create_criteria_objects called with a list of one criterion and none of *)
(* software_title, patch_object, patch_component: the three default to     *)
(* None.  No handler calls it so; the function allows it.                  *)

CreateCriteriaObjectsNoOwner(w) ==
  /\ req[w].pc = "idle"
  /\ \E criterion \in CritInputs :
       LET res == Attach(EmptySession, criterion, NoRow, NoRow, NoRow)
       IN  req' = [req EXCEPT ![w] =
             [Idle EXCEPT !.pc = "done", !.handler = "create_criteria_objects",
                          !.data = <<criterion>>, !.sess = res.sess,
                          !.status = IF res.exc = "" THEN 0 ELSE StatusOf(res.exc),
                          !.before = db,
                          !.log = IF res.exc # "" THEN <<>>
                                  ELSE <<[op |-> "criteria", idx |-> 1, item |-> criterion,
                                          owner |-> 0, rows |-> res.rows,
                                          criteria |-> res.criteria]>>]]
  /\ UNCHANGED db

NoOwnerNext ==
  \E w \in {"w1"} :
    \/ TitleCreate(w) /\ req'[w].data \in RaceTitles
    \/ TitleRequirementsAdd(w) /\ req'[w].data \in RaceItems
    \/ CreateCriteriaObjects(w)
    \/ Commit(w)
    \/ Teardown(w)
    \/ CreateCriteriaObjectsNoOwner(w)

NoOwnerSpec == Init /\ [][NoOwnerNext]_vars

-----------------------------------------------------------------------------
(* Properties.                                                             *)

\* The five content fields of a criteria row, and of a payload criterion.
Content(c) == <<c.name, c.operator, c.value, c.type_, c.and_>>

ItemContent(criterion) ==
  <<criterion.name, criterion.operator, criterion.value, criterion.type,
    AndOf(criterion)>>

Entries(log, names) == {i \in 1..Len(log) : log[i].op \in names}

Count(ops, name) == Cardinality({i \in 1..Len(ops) : ops[i].op = name})

\* No required key is missing from the item of an iteration, and its date parses.
ItemOk(o) ==
  IF o.op \in CriteriaOpNames THEN HasKeys(o.item, CriterionKeys)
  ELSE IF o.op = "patch"
    THEN HasKeys(o.item, PatchKeys) /\ Parsable(o.item.releaseDate)
  ELSE IF o.op = "component" THEN HasKeys(o.item, ComponentKeys)
  ELSE IF o.op = "kill_app" THEN HasKeys(o.item, KillAppKeys)
  ELSE HasKeys(o.item, ExtAttKeys)

\* A valid title description.
ValidTitle(data) ==
  /\ HasKeys(data, TitleKeys)
  /\ \A i \in 1..Len(TitleCreateOps(data)) : ItemOk(TitleCreateOps(data)[i])

Returned(r, handlers, status) ==
  r.pc = "done" /\ r.handler \in handlers /\ r.status = status

\* C1: no store state, durable or as a session sees it, holds two Criteria rows
\* with the same (name, operator, value, type, and-flag); two criteria of the
\* same content resolved in one request resolve to the same row, and a
\* criterion whose content was stored before the request resolves to the
\* stored row.
C1_SameContentSameRow ==
  \A w \in Workers :
    LET r == req[w]
        crit == Entries(r.log, CriteriaOpNames)
    IN  /\ \A a, b \in db.criteria : Content(a) = Content(b) => a = b
        /\ \A a, b \in View(db, r.sess).criteria : Content(a) = Content(b) => a = b
        /\ \A i, j \in crit :
             ItemContent(r.log[i].item) = ItemContent(r.log[j].item)
               => r.log[i].criteria = r.log[j].criteria
        /\ \A i \in crit : \A c \in r.before.criteria :
             Content(c) = ItemContent(r.log[i].item) => r.log[i].criteria = c.id

\* A request that succeeded after resolving twice a content that was stored
\* before it began.
C1_Witness ==
  \E w \in Workers :
    /\ Returned(req[w], {"title_create"}, 201)
    /\ \E i, j \in Entries(req[w].log, CriteriaOpNames) :
         /\ i < j
         /\ ItemContent(req[w].log[i].item) = ItemContent(req[w].log[j].item)
         /\ \E c \in req[w].before.criteria : Content(c) = ItemContent(req[w].log[i].item)
         /\ \E c \in db.criteria : c.id = req[w].log[j].criteria

\* The store holds the title of a description with all of its graph: one join
\* per requirement, one patch per patch description, one join per capability,
\* one component per component description with its criteria owned by a
\* component of the title, one kill-app and one extension attribute per item.
CompleteTitle(store, data) ==
  \E t \in store.titles :
    LET ops == TitleCreateOps(data)
        ps == {p.id : p \in {q \in store.patches : q.software_title = t.id}}
        ks == {k.id : k \in {c \in store.components : c.patch \in ps}}
    IN  /\ t.id_name = data.id
        /\ Cardinality({j \in store.stc : j.software_title = t.id})
             = Count(ops, "requirement")
        /\ Cardinality(ps) = Count(ops, "patch")
        /\ Cardinality({j \in store.pc : j.patch \in ps}) = Count(ops, "capability")
        /\ Cardinality(ks) = Count(ops, "component")
        /\ Cardinality({k \in store.kill_apps : k.patch \in ps}) = Count(ops, "kill_app")
        /\ Cardinality({e \in store.ext_atts : e.software_title = t.id})
             = Count(ops, "ext_att")
        /\ \A i \in 1..Len(ops) :
             LET h == CriteriaHash(ops[i].item)
             IN  /\ ops[i].op = "requirement" =>
                      \E j \in store.stc, c \in store.criteria :
                        j.software_title = t.id /\ j.criteria = c.id /\ c.hash = h
                 /\ ops[i].op = "capability" =>
                      \E j \in store.pc, c \in store.criteria :
                        j.patch \in ps /\ j.criteria = c.id /\ c.hash = h
                 /\ ops[i].op = "component_criteria" =>
                      \E c \in store.criteria : c.hash = h /\ c.patch_component \in ks

\* C2: a title-create request leaves the store as it was before the request
\* until it returns, and when it has returned the store is either still as it
\* was, or holds the title with the whole graph of the description and every
\* row it held before.
C2_AllOrNothing ==
  \A w \in Workers :
    LET r == req[w]
    IN  r.handler = "title_create" =>
          /\ r.pc \in {"run", "commit"} => db = r.before
          /\ r.pc = "done" =>
               \/ db = r.before
               \/ /\ CompleteTitle(db, r.data)
                  /\ \A t \in Tables \ {"criteria"} : r.before[t] \subseteq db[t]
                  /\ Ids(r.before.criteria) \subseteq Ids(db.criteria)

\* A title-create that failed after it had staged the title and rows of it.
C2_Witness ==
  \E w \in Workers :
    /\ Returned(req[w], {"title_create"}, 500)
    /\ req[w].sess.ins.titles # {}
    /\ req[w].sess.ins.patches # {}
    /\ db = req[w].before

\* C3: after a title-create request of a valid description has returned
\* success, the store holds a SoftwareTitle row with the identifier given.
C3_CreatedTitleStored ==
  \A w \in Workers :
    (Returned(req[w], {"title_create"}, 201) /\ ValidTitle(req[w].data))
      => \E t \in db.titles : t.id_name = req[w].data.id

\* C4: after an add-requirements or add-patches request has returned success,
\* every row it staged is in the store.
C4_AddsCommitted ==
  \A w \in Workers :
    Returned(req[w], {"title_requirements_add", "title_patches_add"}, 201)
      => \A i \in 1..Len(req[w].log) : \A row \in req[w].log[i].rows :
           row.id \in Ids(db[row.t])

\* C5: a criteria row has one owner; after a criterion was attached to a
\* component, the row it resolved to is owned by the component that the row was
\* attached to last in the request, and by no other; and when a title-create
\* has succeeded, each of its patches holds one component row per component
\* staged for it, and the store holds one Criteria row of the fingerprint of
\* each criterion attached to a component.
C5_LastComponentOwns ==
  \A w \in Workers :
    LET r == req[w]
        v == View(db, r.sess)
        cc == Entries(r.log, {"component_criteria"})
    IN  /\ \A a, b \in v.criteria : a.id = b.id => a = b
        /\ \A i \in cc :
             LET last == CHOOSE j \in cc :
                           /\ r.log[j].criteria = r.log[i].criteria
                           /\ \A k \in cc : r.log[k].criteria = r.log[i].criteria => k <= j
             IN  \A c \in v.criteria :
                   c.id = r.log[i].criteria => c.patch_component = r.log[last].owner
        /\ Returned(r, {"title_create"}, 201) =>
             \A p \in db.patches : p.software_title = r.title.id =>
               Cardinality({k \in db.components : k.patch = p.id})
                 = Cardinality({i \in Entries(r.log, {"component"}) : r.log[i].owner = p.id})
        /\ Returned(r, {"title_create"}, 201) =>
             \A i \in cc : Cardinality({c \in db.criteria :
                             c.hash = CriteriaHash(r.log[i].item)}) = 1

\* A title created with two components that reference the same content.
C5_Witness ==
  \E w \in Workers :
    /\ Returned(req[w], {"title_create"}, 201)
    /\ \E i, j \in Entries(req[w].log, {"component_criteria"}) :
         /\ i < j
         /\ req[w].log[i].criteria = req[w].log[j].criteria
         /\ req[w].log[i].owner # req[w].log[j].owner
         /\ \E c \in db.criteria :
              c.id = req[w].log[j].criteria /\ c.patch_component = req[w].log[j].owner
         /\ {req[w].log[i].owner, req[w].log[j].owner} \subseteq Ids(db.components)

\* C6: after a request that attached a content to a title or a patch has
\* returned success, the store holds one Criteria row of that fingerprint and,
\* from that owner to the row, one join more per attachment of the request than
\* before the request.
C6_SharedAttachment ==
  \A w \in Workers :
    LET r == req[w]
    IN  (r.pc = "done" /\ r.status = 201) =>
          \A i \in Entries(r.log, {"requirement", "capability"}) :
            LET e == r.log[i]
                same == {k \in 1..Len(r.log) :
                           /\ r.log[k].op = e.op
                           /\ r.log[k].owner = e.owner
                           /\ r.log[k].criteria = e.criteria}
                JoinsOf(store) ==
                  IF e.op = "requirement"
                    THEN Cardinality({j \in store.stc :
                           j.software_title = e.owner /\ j.criteria = e.criteria})
                    ELSE Cardinality({j \in store.pc :
                           j.patch = e.owner /\ j.criteria = e.criteria})
            IN  /\ Cardinality({c \in db.criteria : c.hash = CriteriaHash(e.item)}) = 1
                /\ JoinsOf(db) = JoinsOf(r.before) + Cardinality(same)

\* C7: a title created with two requirements of the same content ends with one
\* Criteria row of that content and one SoftwareTitleCriteria join.
C7_OneJoinForTwinRequirements ==
  \A w \in Workers :
    LET r == req[w]
        reqs == Get(r.data, "requirements")
    IN  ( /\ Returned(r, {"title_create"}, 201)
          /\ Len(reqs) = 2
          /\ HasKeys(reqs[1], CriterionKeys) /\ HasKeys(reqs[2], CriterionKeys)
          /\ ItemContent(reqs[1]) = ItemContent(reqs[2]) )
          => /\ Cardinality({c \in db.criteria : Content(c) = ItemContent(reqs[1])}) = 1
             /\ Cardinality({j \in db.stc : j.software_title = r.title.id}) = 1

\* C8 as stated: in every handler the requirements and the patches are staged
\* in the order of the caller's list.
C8_InputOrder ==
  \A w \in Workers :
    \A p, q \in Entries(req[w].log, {"requirement", "patch"}) :
      (p < q /\ req[w].log[p].op = req[w].log[q].op)
        => req[w].log[p].idx < req[w].log[q].idx

\* C8: add-requirements and add-patches stage their items in the order of the
\* caller's list; title-create stages its requirements, and its patches, in
\* the reverse of that order.
C8_InputOrderByHandler ==
  \A w \in Workers :
    \A p, q \in Entries(req[w].log, {"requirement", "patch"}) :
      (p < q /\ req[w].log[p].op = req[w].log[q].op)
        => IF req[w].handler = "title_create"
             THEN req[w].log[p].idx > req[w].log[q].idx
             ELSE req[w].log[p].idx < req[w].log[q].idx

\* Two patches staged by a title-create.
C8_Witness ==
  \E w \in Workers :
    /\ Returned(req[w], {"title_create"}, 201)
    /\ \E p, q \in Entries(req[w].log, {"patch"}) : p < q
    /\ Cardinality({x \in db.patches : x.software_title = req[w].title.id}) = 2

\* C9: title identifiers are unique in the store, and a title-create of a valid
\* description whose identifier was stored before the request returns the
\* conflict response and leaves the store as it was.
C9_DuplicateIdConflicts ==
  /\ \A a, b \in db.titles : a.id_name = b.id_name => a = b
  /\ \A w \in Workers :
       LET r == req[w]
       IN  ( /\ r.pc = "done" /\ r.handler = "title_create"
             /\ ValidTitle(r.data)
             /\ \E t \in r.before.titles : t.id_name = r.data.id )
             => r.status = 409 /\ db = r.before

\* A criteria row is referenced in a store: by a join, or by a component of the
\* store that owns it.
Referenced(store, c) ==
  \/ \E j \in store.stc \cup store.pc : j.criteria = c.id
  \/ c.patch_component \in Ids(store.components)

\* C10: after a title-delete has returned success, the title named is gone
\* with its patches, their components, kill-apps and joins, and its own joins
\* and extension attributes; every other row of these tables is as before; and
\* every Criteria row that is still referenced is stored with its content, and
\* unchanged unless a deleted component owned it.
C10_DeleteCascades ==
  \A w \in Workers :
    LET r == req[w]
        b == r.before
        gone_patches == {p.id : p \in {q \in b.patches : q.software_title = r.title.id}}
        gone_comps == {k.id : k \in {c \in b.components : c.patch \in gone_patches}}
    IN  Returned(r, {"title_delete"}, 204) =>
          /\ r.title.id_name = r.name_id
          /\ r.title \in b.titles
          /\ db.titles = b.titles \ {r.title}
          /\ db.patches = {p \in b.patches : p.software_title # r.title.id}
          /\ db.components = {k \in b.components : k.patch \notin gone_patches}
          /\ db.kill_apps = {k \in b.kill_apps : k.patch \notin gone_patches}
          /\ db.pc = {j \in b.pc : j.patch \notin gone_patches}
          /\ db.stc = {j \in b.stc : j.software_title # r.title.id}
          /\ db.ext_atts = {e \in b.ext_atts : e.software_title # r.title.id}
          /\ \A c \in b.criteria :
               (\E d \in db.criteria : d.id = c.id) \/ ~Referenced(db, c)
          /\ \A c \in b.criteria : \A d \in db.criteria :
               d.id = c.id =>
                 /\ Content(d) = Content(c)
                 /\ c.patch_component \notin gone_comps => d = c

\* A deleted title that had a patch with a component, while a Criteria row that
\* the component owned is joined to another title and stays.
C10_Witness ==
  \E w \in Workers :
    LET r == req[w]
        b == r.before
    IN  /\ Returned(r, {"title_delete"}, 204)
        /\ \E p \in b.patches, k \in b.components, c \in b.criteria, j \in db.stc :
             /\ p.software_title = r.title.id
             /\ k.patch = p.id
             /\ c.patch_component = k.id
             /\ j.criteria = c.id
             /\ \E d \in db.criteria : d.id = c.id /\ Content(d) = Content(c)

\* The identifiers of a list, as a set.
Requested(list) == {list[i] : i \in 1..Len(list)}

\* C11: a multi-identifier lookup fails with NotFound exactly when one of the
\* identifiers asked for is not stored; the failure lists the identifiers asked
\* for that are not stored, all of them and no other; when none is missing the
\* answer holds the stored titles of the identifiers asked for, and no other.
C11_SelectReportsMissing ==
  \A w \in Workers :
    LET r == req[w]
        ids == Requested(r.data)
        absent == ids \ {t.id_name : t \in db.titles}
    IN  (r.pc = "done" /\ r.handler = "software_titles_select") =>
          /\ r.status \in {200, 404}
          /\ r.status = 404 <=> absent # {}
          /\ r.status = 404 => Requested(r.result.not_found) = absent
          /\ r.status = 200 =>
               /\ {t.id_name : t \in r.result.titles} = ids
               /\ r.result.titles \subseteq db.titles
          /\ db = r.before

\* A lookup of three identifiers of which one is stored: the other two are listed.
C11_Witness ==
  \E w \in Workers :
    /\ Returned(req[w], {"software_titles_select"}, 404)
    /\ Len(req[w].data) = 3
    /\ Len(req[w].result.not_found) = 2
    /\ req[w].result.not_found[1] # req[w].result.not_found[2]
    /\ \E t \in db.titles : t.id_name \in Requested(req[w].data)

\* Two payload criteria with the same name, operator, value and type.
SameFour(a, b) ==
  /\ a.name = b.name /\ a.operator = b.operator
  /\ a.value = b.value /\ a.type = b.type

\* C12: a criterion without the and-flag resolves to a row that stores the
\* and-flag true, with the fingerprint of the criterion with the flag true; in
\* one request it resolves to the row of a criterion with the same other four
\* fields exactly when that one gives the flag as true; and of the rows stored
\* before the request with the same four fields, it resolves to the one with
\* the flag true and never to one with the flag false.
C12_DefaultAndIsTrue ==
  \A w \in Workers :
    LET r == req[w]
        crit == Entries(r.log, CriteriaOpNames)
        omit == {i \in crit : "and" \notin DOMAIN r.log[i].item}
    IN  /\ \A i \in omit : \A c \in View(db, r.sess).criteria :
             c.id = r.log[i].criteria =>
               /\ c.and_ = TRUE
               /\ c.hash = StoredHash(r.log[i].item.name, r.log[i].item.operator,
                                      r.log[i].item.value, r.log[i].item.type, TRUE)
        /\ \A i \in omit : \A j \in crit \ omit :
             SameFour(r.log[i].item, r.log[j].item) =>
               (r.log[i].criteria = r.log[j].criteria <=> r.log[j].item["and"] = TRUE)
        /\ \A i \in omit : \A c \in r.before.criteria :
             ( /\ c.name = r.log[i].item.name /\ c.operator = r.log[i].item.operator
               /\ c.value = r.log[i].item.value /\ c.type_ = r.log[i].item.type )
               => (r.log[i].criteria = c.id <=> c.and_ = TRUE)

\* A title created with a criterion without the flag and the same criterion with
\* the flag true: one row, stored with the flag true.
C12_Witness ==
  \E w \in Workers :
    /\ Returned(req[w], {"title_create"}, 201)
    /\ \E i, j \in Entries(req[w].log, CriteriaOpNames) :
         /\ "and" \notin DOMAIN req[w].log[i].item
         /\ "and" \in DOMAIN req[w].log[j].item
         /\ req[w].log[j].item["and"] = TRUE
         /\ SameFour(req[w].log[i].item, req[w].log[j].item)
         /\ req[w].log[i].criteria = req[w].log[j].criteria
         /\ \E c \in db.criteria : c.id = req[w].log[i].criteria /\ c.and_ = TRUE

\* C13: the store never holds two Criteria rows of one fingerprint or of one
\* content; and a request that has returned after it staged a new Criteria row
\* (its lookup missed) while the store holds another request's row of that
\* fingerprint, has returned the conflict response, and no row it staged, nor
\* the title it constructed, is in the store.
C13_RaceLoserConflicts ==
  /\ \A a, b \in db.criteria : (a.hash = b.hash \/ Content(a) = Content(b)) => a = b
  /\ \A w \in Workers :
       LET r == req[w]
       IN  r.pc = "done" =>
             \A i \in Entries(r.log, CriteriaOpNames) : \A row \in r.log[i].rows :
               ( /\ row.t = "criteria"
                 /\ \E c \in db.criteria :
                      c.hash = CriteriaHash(r.log[i].item) /\ c.id # row.id )
                 => /\ r.status = 409
                    /\ \A k \in 1..Len(r.log) : \A x \in r.log[k].rows :
                         x.id \notin Ids(db[x.t])
                    /\ r.handler = "title_create" => r.title.id \notin Ids(db.titles)

\* C14: two criteria of a request resolve to the same Criteria row exactly when
\* their name, operator, value, type and and-flag are equal field by field, and
\* the row a criterion resolves to stores the fields of that criterion.
C14_SameRowIffSameContent ==
  \A w \in Workers :
    LET r == req[w]
        crit == Entries(r.log, CriteriaOpNames)
    IN  /\ \A i, j \in crit :
             r.log[i].criteria = r.log[j].criteria
               <=> ItemContent(r.log[i].item) = ItemContent(r.log[j].item)
        /\ \A i \in crit : \A c \in View(db, r.sess).criteria :
             c.id = r.log[i].criteria => Content(c) = ItemContent(r.log[i].item)

\* Every reference of a store's rows to an owner or to a Criteria row is to a
\* row of the store.
RefOk(store) ==
  /\ \A p \in store.patches : p.software_title \in Ids(store.titles)
  /\ \A k \in store.components \cup store.kill_apps : k.patch \in Ids(store.patches)
  /\ \A j \in store.stc :
       j.software_title \in Ids(store.titles) /\ j.criteria \in Ids(store.criteria)
  /\ \A j \in store.pc :
       j.patch \in Ids(store.patches) /\ j.criteria \in Ids(store.criteria)

\* The table of the owner of what an iteration stages.
OwnerTable(op) ==
  IF op \in {"requirement", "patch", "ext_att"} THEN "titles"
  ELSE IF op = "component_criteria" THEN "components"
  ELSE "patches"

\* C15: the references of the store, and of the store as each request's session
\* sees it with its staged rows, are to rows that exist: a patch to its title, a
\* component and a kill-app to their patch, a join to its owner and to its
\* Criteria row; and every iteration of a request staged its rows for an owner
\* that was constructed before: the title of the request, or a patch or a
\* component that an earlier iteration staged.
C15_OwnerBeforeChild ==
  /\ RefOk(db)
  /\ \A w \in Workers :
       LET r == req[w]
           v == View(db, r.sess)
       IN  /\ RefOk(v)
           /\ \A k \in 1..Len(r.log) :
                LET e == r.log[k]
                IN  /\ e.owner # 0
                    /\ OwnerTable(e.op) = "titles" => e.owner = r.title.id
                    /\ OwnerTable(e.op) # "titles" =>
                         \E j \in 1..(k - 1) :
                           [t |-> OwnerTable(e.op), id |-> e.owner] \in r.log[j].rows
                    /\ \A row \in e.rows :
                         row.id \in Ids(v[row.t]) /\ e.owner \in Ids(v[OwnerTable(e.op)])

\* A title stored with a patch that has a capability, a component with a
\* criterion, and a kill-app.
C15_Witness ==
  \E w \in Workers :
    /\ Returned(req[w], {"title_create"}, 201)
    /\ \A n \in {"patch", "capability", "component", "component_criteria", "kill_app"} :
         Entries(req[w].log, {n}) # {}
    /\ db.pc # {} /\ db.components # {} /\ db.kill_apps # {}
    /\ \E p \in db.patches : p.software_title = req[w].title.id

\* The step of worker w is an iteration of create_criteria_objects for a title
\* or a patch that went through, on a criterion whose content is in the store
\* as the request sees it.
FoundStep(w) ==
  /\ req[w].pc = "run"
  /\ Head(req[w].ops).op \in {"requirement", "capability"}
  /\ Len(req'[w].log) = Len(req[w].log) + 1
  /\ \E c \in View(db, req[w].sess).criteria :
       Content(c) = ItemContent(Head(req[w].ops).item)

\* What that step leaves alone, and the one join it adds.
Untouched(w) ==
  LET r == req[w]
      o == Head(r.ops)
      v == View(db, r.sess)
      n == View(db', req'[w].sess)
      c == CHOOSE x \in v.criteria : Content(x) = ItemContent(o.item)
      joins == IF o.op = "requirement" THEN n.stc \ v.stc ELSE n.pc \ v.pc
  IN  /\ db' = db
      /\ n.criteria = v.criteria
      /\ req'[w].log[Len(req'[w].log)].criteria = c.id
      /\ v.stc \subseteq n.stc /\ v.pc \subseteq n.pc
      /\ o.op = "requirement" => n.pc = v.pc
      /\ o.op = "capability" => n.stc = v.stc
      /\ Cardinality(joins) = 1
      /\ \A j \in joins :
           /\ j.criteria = c.id
           /\ o.op = "requirement" => j.software_title = r.title.id
           /\ o.op = "capability" => j.patch = r.patch.id
      /\ n.patches = v.patches /\ n.components = v.components
      /\ n.kill_apps = v.kill_apps /\ n.ext_atts = v.ext_atts
      /\ v.titles \subseteq n.titles /\ n.titles \ v.titles \subseteq {r.title}

\* C16: when a criterion is attached to a title or to a patch and its content
\* is in the store already, the step adds no Criteria row, leaves every Criteria
\* row as it was (fields and owning component), leaves every join and every
\* other row as it was, and adds one join from the owner to the row of that
\* content; besides the join, only the request's own title may enter the
\* session with it.
C16_FoundRowUntouched == [][\A w \in Workers : FoundStep(w) => Untouched(w)]_vars

\* A patch added with a capability whose content was stored before and is owned
\* by a component: the row is as it was, and the patch has its join to it.
C16_Witness ==
  \E w \in Workers :
    /\ Returned(req[w], {"title_patches_add"}, 201)
    /\ \E i \in Entries(req[w].log, {"capability"}) :
         \E c \in req[w].before.criteria :
           /\ Content(c) = ItemContent(req[w].log[i].item)
           /\ c.patch_component # 0
           /\ c \in db.criteria
           /\ req[w].log[i].criteria = c.id
           /\ Cardinality(req[w].log[i].rows) = 1
           /\ \E j \in db.pc \ req[w].before.pc :
                j.criteria = c.id /\ j.patch = req[w].log[i].owner
           /\ Cardinality(db.criteria) = Cardinality(req[w].before.criteria)

TitleHandlers ==
  {"title_delete", "title_requirements_add", "title_patches_add",
   "patch_by_name_id", "title_patches"}

\* C17: a title-delete, add-requirements, add-patches, patch-by-identifier or
\* list-patches request for an identifier that no stored title has, has
\* returned NotFound with nothing staged, no iteration run and no commit, and
\* the store is as it was before the request.
C17_MissingTitleNotFound ==
  \A w \in Workers :
    LET r == req[w]
    IN  ( /\ r.handler \in TitleHandlers
          /\ r.name_id \notin {t.id_name : t \in r.before.titles} )
          => /\ r.pc = "done"
             /\ r.status = 404
             /\ r.sess = EmptySession
             /\ r.log = <<>>
             /\ r.commits = 0
             /\ db = r.before

\* An add-patches request with a patch to add, for an identifier that is not
\* stored while another title is.
C17_Witness ==
  \E w \in Workers :
    /\ Returned(req[w], {"title_patches_add"}, 404)
    /\ req[w].data.items # <<>>
    /\ db.titles # {} /\ db.patches # {}
    /\ req[w].name_id \notin {t.id_name : t \in db.titles}

\* The iterations a title-create or add-patches request has to run.
Plan(r) ==
  IF r.handler = "title_create" THEN TitleCreateOps(r.data) ELSE PatchesAddOps(r.data)

\* C18: a title-create or add-patches request commits at most once; while it
\* stages its children it has not committed and the store is as it was before
\* the request; and when it has committed, every requirement, patch,
\* capability, component, component criterion, kill-app and extension attribute
\* of the request was staged before, each in its turn.
C18_OneCommitAfterStaging ==
  \A w \in Workers :
    LET r == req[w]
    IN  r.handler \in {"title_create", "title_patches_add"} =>
          /\ r.commits <= 1
          /\ r.pc \in {"run", "commit"} => (r.commits = 0 /\ db = r.before)
          /\ db # r.before => r.commits = 1
          /\ r.commits = 1 =>
               /\ r.pc = "done"
               /\ r.ops = <<>>
               /\ Len(r.log) = Len(Plan(r))
               /\ \A k \in 1..Len(r.log) :
                    /\ r.log[k].op = Plan(r)[k].op
                    /\ r.log[k].item = Plan(r)[k].item
               /\ \A k \in 1..Len(r.log) : \A row \in r.log[k].rows :
                    row.id \in Ids(db[row.t])

\* A title-create that committed after it staged a patch with a capability, a
\* component with a criterion, and a kill-app.
C18_Witness ==
  \E w \in Workers :
    /\ Returned(req[w], {"title_create"}, 201)
    /\ req[w].commits = 1
    /\ Len(req[w].log) >= 5
    /\ db # req[w].before
    /\ \A n \in {"patch", "capability", "component", "component_criteria", "kill_app"} :
         Entries(req[w].log, {n}) # {}

\* C19: a call of create_criteria_objects with no owner has failed (it raised),
\* and has staged no Criteria row and no join.
C19_NoOwnerFails ==
  \A w \in Workers :
    LET r == req[w]
    IN  (r.pc = "done" /\ r.handler = "create_criteria_objects") =>
          /\ r.status # 0
          /\ r.sess.ins.criteria = {}
          /\ r.sess.ins.stc = {} /\ r.sess.ins.pc = {}

====
